---- MODULE Spec2Model ----
(***************************************************************************)
(* The dual-transport MCP client core of mcp-superstack:                   *)
(*   - StdioClientManager and its exported helpers   (src/src/client.ts)   *)
(*   - HTTPMCPClient and HTTPClientManager           (http-client.ts, kept *)
(*     in src/unnamed/part_007 from line 94 on)                            *)
(*   - the transport dispatch of callTool            (src/src/index.ts)    *)
(*   - the stdio wrapper, version 2                  (src/templates/       *)
(*     codex-cli/polydev-stdio-wrapper.js, lines 1-260), and the loop of   *)
(*     its first version (the same file, lines 262-457)                    *)
(*   - the result extraction of callMCPTool and HTTPMCPClient.callTool     *)
(*                                                                         *)
(* JavaScript runs the code of one call without interruption up to its     *)
(* next await.  Every action below is one such run: the synchronous part   *)
(* of a call, or the continuation of an await.  A continuation that waits  *)
(* on I/O (a connect, a close, a response, a process exit) is a macrotask  *)
(* and runs only when no promise reaction is queued (MicrotaskPending).    *)
(***************************************************************************)
EXTENDS Integers, Sequences, FiniteSets, TLC

\* ---------------------------------------------------------------- registry
\* Keys of stdioServers and httpServers (two of each are enough to tell
\* "same server" from "other server"), and a name in neither table.
StdioNames == {"memory", "git"}
HttpNames == {"vercel", "exa"}
UnknownNames == {"nosuch"}
ServerNames == StdioNames \cup HttpNames \cup UnknownNames
\* The names each manager is called with directly: its own and an unknown one
\* (to the stdio manager an HTTP name is one more unknown name, and the other
\* way round).  The HTTP manager is called with one of its names, and with
\* both where two cached HTTP clients are to be told apart (SpecFrame).
StdioCallNames == StdioNames \cup UnknownNames
HttpCallNames == {"vercel"} \cup UnknownNames
HttpAllNames == HttpNames \cup UnknownNames

\* ------------------------------------------------------------------ bounds
NumCallers == 2          \* concurrent callers
MaxSessions == 3         \* createClient calls in one run
MaxHttpClients == 2      \* HTTPMCPClient objects constructed in one run
MaxRequestId == 3        \* requests sent on one HTTPMCPClient
MaxManagersInUse == 1    \* managers that come to hold objects in one run
MaxLines == 3            \* non-blank lines the wrapper reads in one run
MaxChunkLines == 2       \* complete lines in one chunk of stdin
MaxTextLen == 3          \* characters in the text of a content entry

Callers == 1..NumCallers

VARIABLES
    clients,        \* StdioClientManager.clients: name -> session id, 0 = no entry
    transports,     \* StdioClientManager.transports: name -> session id, 0 = no entry
    initializing,   \* StdioClientManager.initializing: name -> creation id, 0 = no entry
    sessions,       \* every createClient call so far: its Client/transport pair
    hclients,       \* HTTPClientManager.clients: name -> client id, 0 = no entry
    hsessions,      \* every HTTPMCPClient constructed so far
    calls,          \* the calls in progress, one per caller
    buffer,         \* wrapper: the text read from stdin after the last newline
    pendingRequests,\* wrapper: processLine calls that have not finished
    stdinEnded,     \* wrapper: stdin has emitted 'end'
    requests,       \* wrapper: every processLine call on a non-blank line so far
    stdout,         \* wrapper: the lines written to stdout, in order
    exited,         \* wrapper: process.exit was called
    norm            \* a raw tools/call result and what a helper returns for it

stdioVars == <<clients, transports, initializing, sessions>>
httpVars == <<hclients, hsessions>>
wrapperVars == <<buffer, pendingRequests, stdinEnded, requests, stdout, exited>>
vars == <<clients, transports, initializing, sessions, hclients, hsessions, calls,
          buffer, pendingRequests, stdinEnded, requests, stdout, exited, norm>>

\* ------------------------------------------------------------------ values
NoRes == [tag |-> "none", sid |-> 0]
Res(t, i) == [tag |-> t, sid |-> i]
IdleCall == [pc |-> "idle", kind |-> "none", srv |-> "none", sid |-> 0,
             hid |-> 0, snap |-> {}, rid |-> 0, late |-> FALSE, res |-> NoRes]
\* A call that has ended: what it was, and the outcome its caller sees.
Done(call, r) == [IdleCall EXCEPT !.pc = "done", !.kind = call.kind,
                                  !.srv = call.srv, !.hid = call.hid,
                                  !.res = r]

SessionIds == 1..Len(sessions)
HttpIds == 1..Len(hsessions)

\* The two managers are separate singletons that share no state.  A run may
\* call both, and constructs objects in at most MaxManagersInUse of them.
ManagersInUse ==
    (IF Len(sessions) > 0 THEN 1 ELSE 0) + (IF Len(hsessions) > 0 THEN 1 ELSE 0)
MayConstructStdio ==
    /\ Len(sessions) < MaxSessions
    /\ Len(sessions) > 0 \/ ManagersInUse < MaxManagersInUse
MayConstructHttp ==
    /\ Len(hsessions) < MaxHttpClients
    /\ Len(hsessions) > 0 \/ ManagersInUse < MaxManagersInUse

\* ---------------------------------------------------------------- config.ts
isHTTPServer(name) == name \in HttpNames

\* ------------------------------------------------- the JavaScript job queues
\* A promise reaction is queued: the continuation of an await on a promise
\* that has settled.  The queue is emptied before the next I/O event is
\* handled.
Settled(a) == sessions[a].st \in {"connected", "failed", "rejected"}
MicrotaskPending ==
    \E c \in Callers :
        \/ calls[c].pc \in {"hasClient", "hInitDone"}
        \/ calls[c].pc \in {"create", "join"} /\ Settled(calls[c].sid)
        \/ calls[c].pc = "closingAll" /\ calls[c].snap = {}

\* ------------------------------------------------ StdioClientManager.getClient
HasClient(serverName) == clients[serverName] # 0
\* (variant: the in-flight test of line 33 left out)
HasInitializingMut(serverName) == FALSE
HasInitializing(serverName) == initializing[serverName] # 0

\* createClient up to its first await: the config lookup, then the transport,
\* the Client and the call of client.connect (which spawns the process).
\* (NewSessionMut: the variant without the config test of lines 56-58)
NewSessionMut(serverName) ==
    [srv |-> serverName, st |-> "connecting", closeInvoked |-> FALSE, exited |-> FALSE]
NewSession(serverName) ==
    [srv |-> serverName,
     st |-> IF serverName \in StdioNames THEN "connecting" ELSE "rejected",
     closeInvoked |-> FALSE,
     exited |-> FALSE]

\* The outcome a settled creation gives to whoever awaits its promise.
Outcome(a) ==
    CASE sessions[a].st = "connected" -> Res("client", a)
      [] sessions[a].st = "failed" -> Res("ConnectError", a)
      [] sessions[a].st = "rejected" -> Res("ConfigurationError", a)
      [] OTHER -> NoRes

\* getClient(serverName), called for `kind` by caller c, up to its first await.
getClient(c, kind, serverName) ==
    /\ calls[c].pc = "idle"
    /\ IF HasClient(serverName)
       THEN /\ calls' = [calls EXCEPT ![c] = [IdleCall EXCEPT
                    !.pc = "hasClient", !.kind = kind, !.srv = serverName,
                    !.sid = clients[serverName]]]
            /\ UNCHANGED <<sessions, initializing>>
       ELSE IF HasInitializing(serverName)
       THEN /\ calls' = [calls EXCEPT ![c] = [IdleCall EXCEPT
                    !.pc = "join", !.kind = kind, !.srv = serverName,
                    !.sid = initializing[serverName]]]
            /\ UNCHANGED <<sessions, initializing>>
       ELSE /\ MayConstructStdio
            /\ sessions' = Append(sessions, NewSession(serverName))
            /\ initializing' = [initializing EXCEPT ![serverName] = Len(sessions) + 1]
            /\ calls' = [calls EXCEPT ![c] = [IdleCall EXCEPT
                    !.pc = "create", !.kind = kind, !.srv = serverName,
                    !.sid = Len(sessions) + 1]]
    /\ UNCHANGED <<clients, transports, httpVars, wrapperVars, norm>>

\* The exported helpers.  callMCPTool and listTools both await getClient and
\* then send one request on the client they get (kind "call"); which of
\* tools/call and tools/list it is makes no difference to the manager.
initializeServer(c, serverName) == getClient(c, "init", serverName)
callMCPTool(c, serverName) == getClient(c, "call", serverName)
listTools(c, serverName) == getClient(c, "call", serverName)

\* client.connect(transport) resolves: createClient stores the references and
\* returns the client (lines 76-80).
\* (StoreClientMut: the variant that forgets line 77)
StoreClientMut(a) == clients
StoreClient(a) == [clients EXCEPT ![sessions[a].srv] = a]
ConnectDone(a) ==
    /\ sessions[a].st = "connecting"
    /\ ~MicrotaskPending
    /\ sessions' = [sessions EXCEPT ![a].st = "connected"]
    /\ clients' = StoreClient(a)
    /\ transports' = [transports EXCEPT ![sessions[a].srv] = a]
    /\ UNCHANGED <<initializing, httpVars, wrapperVars, norm, calls>>

\* client.connect(transport) rejects (spawn error, failed handshake):
\* createClient throws at line 74 and stores nothing.
ConnectFail(a) ==
    /\ sessions[a].st = "connecting"
    /\ ~MicrotaskPending
    /\ sessions' = [sessions EXCEPT ![a].st = "failed"]
    /\ UNCHANGED <<clients, transports, initializing, httpVars, wrapperVars, norm, calls>>

\* The catch block of getClient, line 46.
\* (DeleteInitializingOnErrorMut: the variant whose catch block only rethrows)
DeleteInitializingOnErrorMut(serverName) == initializing
DeleteInitializingOnError(serverName) == [initializing EXCEPT ![serverName] = 0]

\* The creator's `await initPromise` continues (lines 42-48).
CreatorResume(c) ==
    /\ calls[c].pc = "create"
    /\ Settled(calls[c].sid)
    /\ initializing' =
          IF sessions[calls[c].sid].st = "connected"
          THEN [initializing EXCEPT ![calls[c].srv] = 0]
          ELSE DeleteInitializingOnError(calls[c].srv)
    /\ calls' = [calls EXCEPT ![c] =
          IF sessions[calls[c].sid].st = "connected"
          THEN [@ EXCEPT !.pc = "hasClient"]
          ELSE Done(@, Outcome(calls[c].sid))]
    /\ UNCHANGED <<clients, transports, sessions, httpVars, wrapperVars, norm>>

\* A caller that was handed the in-flight promise (line 34) gets its outcome.
\* Its reaction is queued on the promise after the creator's.
WaiterResume(c) ==
    /\ calls[c].pc = "join"
    /\ Settled(calls[c].sid)
    /\ initializing[sessions[calls[c].sid].srv] # calls[c].sid
    /\ calls' = [calls EXCEPT ![c] =
          IF sessions[calls[c].sid].st = "connected"
          THEN [@ EXCEPT !.pc = "hasClient"]
          ELSE Done(@, Outcome(calls[c].sid))]
    /\ UNCHANGED <<stdioVars, httpVars, wrapperVars, norm>>


\* Every request pending on session a is rejected with `tag` (the SDK rejects
\* the response handlers of a Client whose transport closes).
FailPending(a, tag) ==
    [c \in Callers |->
        IF calls[c].pc = "calling" /\ calls[c].sid = a
        THEN Done(calls[c], Res(tag, a))
        ELSE calls[c]]

Usable(a) == ~sessions[a].closeInvoked /\ ~sessions[a].exited

\* The continuation of `await manager.getClient(serverName)`:
\* initializeServer returns (line 146), callMCPTool and listTools send their
\* request on the client they were given (lines 157, 179).
Continue(c) ==
    /\ calls[c].pc = "hasClient"
    /\ calls' = [calls EXCEPT ![c] =
          IF calls[c].kind = "init"
          THEN Done(@, Res("client", calls[c].sid))
          ELSE IF Usable(calls[c].sid)
          THEN [@ EXCEPT !.pc = "calling"]
          ELSE Done(@, Res("NotConnected", calls[c].sid))]
    /\ UNCHANGED <<stdioVars, httpVars, wrapperVars, norm>>

\* The response of a pending tools/call or tools/list arrives.
ToolResponse(c) ==
    /\ calls[c].pc = "calling"
    /\ ~MicrotaskPending
    /\ calls' = [calls EXCEPT ![c] = Done(@, Res("value", calls[c].sid))]
    /\ UNCHANGED <<stdioVars, httpVars, wrapperVars, norm>>

\* The server process of a connected session terminates on its own.  The
\* manager registers no handler for it: no map changes.
ProcessExit(a) ==
    /\ sessions[a].st = "connected"
    /\ Usable(a)
    /\ ~MicrotaskPending
    /\ sessions' = [sessions EXCEPT ![a].exited = TRUE]
    /\ calls' = FailPending(a, "TransportError")
    /\ UNCHANGED <<clients, transports, initializing, httpVars, wrapperVars, norm>>

\* ----------------------------------------------- StdioClientManager.disconnect
\* disconnect(serverName) up to `await client.close()` (lines 94-97).
disconnect(c, serverName) ==
    /\ calls[c].pc = "idle"
    /\ IF HasClient(serverName)
       THEN /\ sessions' = [sessions EXCEPT ![clients[serverName]].closeInvoked = TRUE]
            /\ calls' = [FailPending(clients[serverName], "ConnectionClosed")
                  EXCEPT ![c] = [IdleCall EXCEPT
                    !.pc = "closing", !.kind = "disconnect", !.srv = serverName,
                    !.sid = clients[serverName]]]
       ELSE /\ calls' = [calls EXCEPT ![c] = [IdleCall EXCEPT
                    !.pc = "done", !.kind = "disconnect", !.srv = serverName,
                    !.res = Res("void", 0)]]
            /\ UNCHANGED sessions
    /\ UNCHANGED <<clients, transports, initializing, httpVars, wrapperVars, norm>>

\* close() has resolved or thrown: lines 101-102.
\* (DeleteClientMut: the variant that forgets line 101)
DeleteClientMut(serverName) == clients
\* (DeleteClientAllMut: the variant that clears the map)
DeleteClientAllMut(serverName) == [n \in ServerNames |-> 0]
DeleteClient(serverName) == [clients EXCEPT ![serverName] = 0]
DisconnectFinish(c) ==
    /\ calls[c].pc = "closing"
    /\ ~MicrotaskPending
    /\ clients' = DeleteClient(calls[c].srv)
    /\ transports' = [transports EXCEPT ![calls[c].srv] = 0]
    /\ calls' = [calls EXCEPT ![c] = Done(@, Res("void", calls[c].sid))]
    /\ UNCHANGED <<sessions, initializing, httpVars, wrapperVars, norm>>

\* -------------------------------------------- StdioClientManager.disconnectAll
\* The entries of the cache when disconnectAll is called (line 110).
CachedSessions == {clients[n] : n \in {m \in ServerNames : clients[m] # 0}}

\* disconnectAll() up to `await Promise.all(closePromises)`: close is called
\* on every client of the snapshot.
disconnectAllAs(c, kind) ==
    /\ calls[c].pc = "idle"
    /\ sessions' = [a \in SessionIds |->
          IF a \in CachedSessions
          THEN [sessions[a] EXCEPT !.closeInvoked = TRUE]
          ELSE sessions[a]]
    /\ calls' = [d \in Callers |->
          IF d = c
          THEN [IdleCall EXCEPT !.pc = "closingAll", !.kind = kind,
                                !.snap = CachedSessions]
          ELSE IF calls[d].pc = "calling" /\ calls[d].sid \in CachedSessions
          THEN Done(calls[d], Res("ConnectionClosed", calls[d].sid))
          ELSE calls[d]]
    /\ UNCHANGED <<clients, transports, initializing, httpVars, wrapperVars, norm>>

disconnectAll(c) == disconnectAllAs(c, "disconnectAll")

\* cleanup(), client.ts lines 185-187: `await manager.disconnectAll()` on the
\* stdio manager; the HTTP manager is not touched.
cleanup(c) == disconnectAllAs(c, "cleanup")

\* Every close has resolved or thrown (with nothing to close, Promise.all
\* resolves at once): lines 119-120.
ClearClients == [n \in ServerNames |-> 0]
DisconnectAllFinish(c) ==
    /\ calls[c].pc = "closingAll"
    /\ calls[c].snap = {} \/ ~MicrotaskPending
    /\ clients' = ClearClients
    /\ transports' = [n \in ServerNames |-> 0]
    /\ calls' = [calls EXCEPT ![c] = Done(@, Res("void", 0))]
    /\ UNCHANGED <<sessions, initializing, httpVars, wrapperVars, norm>>

\* ------------------------------------------------------------ HTTPMCPClient
\* new HTTPMCPClient(name, config): lines 126-134.
NewHttpClient(serverName) ==
    [srv |-> serverName, requestId |-> 0, initialized |-> FALSE,
     serverInfo |-> "null", initPosts |-> 0, sent |-> {}]

\* sendRequest(method) up to `await fetch(...)` (lines 140-154) on client
\* record r: the id is taken and the POST goes out.
\* (PostRequestMut: the variant that sends this.requestId without `++`)
PostRequestMut(r, method) ==
    [r EXCEPT !.initPosts = IF method = "initialize" THEN @ + 1 ELSE @,
              !.sent = @ \cup {method}]
PostRequest(r, method) ==
    [r EXCEPT !.requestId = @ + 1,
              !.initPosts = IF method = "initialize" THEN @ + 1 ELSE @,
              !.sent = @ \cup {method}]

\* What comes back for one POST: fetch rejects, or a response arrives with
\* response.ok (a 2xx status) or not and a JSON body with an error field or
\* without one.
FetchRejected == [rejected |-> TRUE, ok |-> FALSE, error |-> FALSE]
HttpResponses ==
    {FetchRejected} \cup {[rejected |-> FALSE, ok |-> o, error |-> e] : o, e \in BOOLEAN}

\* sendRequest from the end of `await fetch(...)` on (lines 156-166): what it
\* returns or throws for a response.  The status is tested before the body.
\* (sendRequestMut: the variant that returns json.result whatever came back)
sendRequestMut(resp) == "ok"
sendRequest(resp) ==
    IF resp.rejected THEN "NetworkError"
    ELSE IF ~resp.ok THEN "HTTPError"
    ELSE IF resp.error THEN "MCPError"
    ELSE "ok"

\* --------------------------------------------------- HTTPClientManager.getClient
HHasClient(serverName) == hclients[serverName] # 0
HClientId(serverName) ==
    IF HHasClient(serverName) THEN hclients[serverName] ELSE Len(hsessions) + 1
HSessionsAfterGet(serverName) ==
    IF HHasClient(serverName) THEN hsessions
    ELSE Append(hsessions, NewHttpClient(serverName))

\* client.initialize() up to its first await (lines 173-175).
NeedsInitialize(r) == ~r.initialized

\* initializeHTTPServer / callHTTPMCPTool / listHTTPTools up to their first
\* await: manager.getClient(serverName) and then client.initialize(), called
\* directly or as the first statement of callTool / listTools.
HttpStart(c, kind, serverName) ==
    /\ calls[c].pc = "idle"
    /\ IF ~HHasClient(serverName) /\ serverName \notin HttpNames
       THEN /\ calls' = [calls EXCEPT ![c] =
                  Done([IdleCall EXCEPT !.kind = kind, !.srv = serverName],
                       Res("ConfigurationError", 0))]
            /\ UNCHANGED <<hclients, hsessions>>
       ELSE LET h == HClientId(serverName)
                hs == HSessionsAfterGet(serverName)
            IN  /\ ~HHasClient(serverName) => MayConstructHttp
                /\ hclients' = [hclients EXCEPT ![serverName] = h]
                /\ IF NeedsInitialize(hs[h])
                   THEN /\ hs[h].requestId < MaxRequestId
                        /\ hsessions' = [hs EXCEPT ![h] = PostRequest(@, "initialize")]
                        /\ calls' = [calls EXCEPT ![c] = [IdleCall EXCEPT
                              !.pc = "hInitWait", !.kind = kind, !.srv = serverName,
                              !.hid = h,
                              !.rid = PostRequest(hs[h], "initialize").requestId]]
                   ELSE /\ hsessions' = hs
                        /\ calls' = [calls EXCEPT ![c] = [IdleCall EXCEPT
                              !.pc = "hInitDone", !.kind = kind, !.srv = serverName,
                              !.hid = h]]
    /\ UNCHANGED <<stdioVars, wrapperVars, norm>>

initializeHTTPServer(c, serverName) == HttpStart(c, "hinit", serverName)
callHTTPMCPTool(c, serverName) == HttpStart(c, "hcall", serverName)
listHTTPTools(c, serverName) == HttpStart(c, "hlist", serverName)

\* The initialize POST of caller c is answered: sendRequest returns or throws,
\* and initialize records success (lines 184-185) or throws.
\* (initializeRecordMut: the variant that sets the flag whatever sendRequest
\* did)
initializeRecordMut(r, outcome) == [r EXCEPT !.initialized = TRUE]
initializeRecord(r, outcome) ==
    IF outcome = "ok" THEN [r EXCEPT !.serverInfo = "info", !.initialized = TRUE]
    ELSE r
InitializeResponse(c, resp) ==
    /\ calls[c].pc = "hInitWait"
    /\ ~MicrotaskPending
    /\ hsessions' = [hsessions EXCEPT ![calls[c].hid] =
                        initializeRecord(@, sendRequest(resp))]
    /\ IF sendRequest(resp) = "ok"
       THEN /\ calls' = [calls EXCEPT ![c] = [@ EXCEPT !.pc = "hInitDone", !.rid = 0,
                                                         !.late = FALSE]]
       ELSE /\ calls' = [calls EXCEPT ![c] = Done(@, Res(sendRequest(resp), 0))]
    /\ UNCHANGED <<hclients, stdioVars, wrapperVars, norm>>

\* A POST of caller c has been outstanding for longer than any time a caller
\* is prepared to wait.  fetch is called without a signal and nothing sets a
\* timer (lines 147-154): the call goes on waiting for its response.
DeadlinePasses(c) ==
    /\ calls[c].pc \in {"hInitWait", "hCallWait"}
    /\ ~calls[c].late
    /\ ~MicrotaskPending
    /\ calls' = [calls EXCEPT ![c].late = TRUE]
    /\ UNCHANGED <<httpVars, wrapperVars, norm, stdioVars>>

\* The method callTool / listTools send once initialize() has returned.
MethodOf(kind) == IF kind = "hlist" THEN "tools/list" ELSE "tools/call"

\* The continuation of `await client.initialize()` / `await this.initialize()`:
\* initializeHTTPServer returns; callTool and listTools send their request
\* (lines 193, 201).
HttpContinue(c) ==
    /\ calls[c].pc = "hInitDone"
    /\ IF calls[c].kind = "hinit"
       THEN /\ calls' = [calls EXCEPT ![c] = Done(@, Res("void", 0))]
            /\ UNCHANGED hsessions
       ELSE /\ hsessions[calls[c].hid].requestId < MaxRequestId
            /\ hsessions' = [hsessions EXCEPT ![calls[c].hid] =
                  PostRequest(@, MethodOf(calls[c].kind))]
            /\ calls' = [calls EXCEPT ![c] = [@ EXCEPT !.pc = "hCallWait",
                  !.rid = hsessions'[calls[c].hid].requestId]]
    /\ UNCHANGED <<hclients, stdioVars, wrapperVars, norm>>

\* The tools/call or tools/list POST of caller c is answered.
CallResponse(c, resp) ==
    /\ calls[c].pc = "hCallWait"
    /\ ~MicrotaskPending
    /\ calls' = [calls EXCEPT ![c] =
          Done(@, Res(IF sendRequest(resp) = "ok" THEN "value" ELSE sendRequest(resp), 0))]
    /\ UNCHANGED <<httpVars, wrapperVars, norm, stdioVars>>

\* HTTPClientManager.disconnect (lines 272-274) and disconnectAll (279-281).
\* (HDeleteMut: the variant that clears the map instead of deleting one key)
HDeleteMut(serverName) == [n \in ServerNames |-> 0]
\* (HDeleteKeepMut: the variant that leaves the entry in the map)
HDeleteKeepMut(serverName) == hclients
HDelete(serverName) == [hclients EXCEPT ![serverName] = 0]
httpDisconnect(c, serverName) ==
    /\ calls[c].pc = "idle"
    /\ hclients' = HDelete(serverName)
    /\ calls' = [calls EXCEPT ![c] =
          Done([IdleCall EXCEPT !.kind = "hdisconnect", !.srv = serverName],
               Res("void", 0))]
    /\ UNCHANGED <<hsessions, stdioVars, wrapperVars, norm>>

\* HTTPClientManager.getConnectedServers (lines 286-290) on the map hc and
\* the client objects hs: the names whose client is initialized.
getConnectedServers(hc, hs) ==
    {n \in ServerNames : hc[n] # 0 /\ hs[hc[n]].initialized}

httpDisconnectAll(c) ==
    /\ calls[c].pc = "idle"
    /\ hclients' = [n \in ServerNames |-> 0]
    /\ calls' = [calls EXCEPT ![c] =
          Done([IdleCall EXCEPT !.kind = "hdisconnectAll"], Res("void", 0))]
    /\ UNCHANGED <<hsessions, stdioVars, wrapperVars, norm>>

\* ------------------------------------------------------------------ index.ts
\* callTool(serverName, ...): the transport is chosen by isHTTPServer.
callTool(c, serverName) ==
    IF isHTTPServer(serverName)
    THEN callHTTPMCPTool(c, serverName)
    ELSE callMCPTool(c, serverName)

\* The caller has its result and makes its next call.  What it referred to is
\* dropped with it: a client object that is not running any more and that no
\* map and no call refers to is garbage, and its record is forgotten.
Gone == [srv |-> "none", st |-> "gone", closeInvoked |-> FALSE, exited |-> FALSE]
HGone == [srv |-> "none", requestId |-> 0, initialized |-> FALSE,
          serverInfo |-> "gone", initPosts |-> 0, sent |-> {}]
Referenced(a, cs) ==
    \/ \E n \in ServerNames : clients[n] = a \/ initializing[n] = a
    \/ \E c \in Callers : cs[c].sid = a \/ cs[c].res.sid = a \/ a \in cs[c].snap
HReferenced(h, cs) ==
    \/ \E n \in ServerNames : hclients[n] = h
    \/ \E c \in Callers : cs[c].hid = h
Running(a) ==
    \/ sessions[a].st = "connecting"
    \/ sessions[a].st = "connected" /\ Usable(a)
Return(c) ==
    /\ calls[c].pc = "done"
    /\ calls' = [calls EXCEPT ![c] = IdleCall]
    /\ sessions' = [a \in SessionIds |->
          IF Running(a) \/ Referenced(a, calls') THEN sessions[a] ELSE Gone]
    /\ hsessions' = [h \in HttpIds |->
          IF HReferenced(h, calls') THEN hsessions[h] ELSE HGone]
    /\ UNCHANGED <<clients, transports, initializing, hclients, wrapperVars, norm>>

\* ============================================ polydev-stdio-wrapper.js (v2)
\* The wrapper is a program of its own: it reads JSON-RPC lines from stdin,
\* answers on stdout, and forwards tools/call to the remote server.
\*
\* The text of one line: blank (empty or white space), one JSON-RPC message,
\* or text that JSON.parse rejects.  A message is told apart by its method
\* and by whether it carries an id.
Blank == [kind |-> "blank", method |-> "none", hasId |-> FALSE]
Garbage == [kind |-> "garbage", method |-> "none", hasId |-> FALSE]
Msg(m, i) == [kind |-> "msg", method |-> m, hasId |-> i]
Messages ==
    {Msg(m, TRUE) : m \in {"initialize", "ping", "tools/list", "tools/call",
                           "resources/list"}}
    \cup {Msg(m, FALSE) : m \in {"notifications/initialized",
                                 "notifications/cancelled"}}
LineTexts == Messages \cup {Garbage, Blank}

\* `buffer += chunk`, and the text of a line made of two pieces: white space
\* adds nothing, two pieces of other text run together do not parse.
Concat(a, b) == IF a = Blank THEN b ELSE IF b = Blank THEN a ELSE Garbage

\* handle(request) up to its first await (lines 137-183): what it returns at
\* once, or "forward" when it goes on into forward(request).
\* (handleMut: the variant that forwards every method it does not answer, as
\* the first version of the wrapper did)
handleMut(msg) ==
    IF msg.method \in {"initialize", "tools/list"} THEN "result" ELSE "forward"
handle(msg) ==
    IF msg.method = "initialize" THEN "result"
    ELSE IF msg.method = "notifications/initialized" THEN "null"
    ELSE IF msg.method = "ping" THEN "result"
    ELSE IF msg.method = "tools/list" THEN "result"
    ELSE IF msg.method = "tools/call" THEN "forward"
    ELSE IF msg.method # "none" THEN "MethodNotFound"
    ELSE "InvalidRequest"

\* One processLine call: the line, where the call stands, what `await
\* handle(request)` gives it, and whether forward has called fetch for it.
\*   st: "handled" the awaited promise has settled, the continuation is queued
\*       "fetch"   forward awaits fetch          "text"  forward awaits text()
\*       "done"    processLine has finished
\*   timer: the timer of forward (line 85) is armed
\*   err: what was thrown, when ret is "throw": "parse" by JSON.parse of the
\*        line, "timeout" by the timer's abort, "failed" by forward otherwise
\*        (no connection, a body that is not JSON, a status that is not 2xx)
Request(line, st, ret, posts) ==
    [line |-> line, st |-> st, ret |-> ret, posts |-> posts, ok |-> FALSE,
     timer |-> FALSE, err |-> "none"]

\* respond(message) (lines 128-132): one line on stdout.  `req` is the
\* processLine call that wrote it, `id` the id member of the message: the
\* request's own (its number in arrival order), "null", or "absent" when the
\* request had none.
IdOf(i, line) == IF line.hasId THEN i ELSE 0
Response(i, kind, id) == [req |-> i, kind |-> kind, id |-> id]

\* processLine(line) up to its first await (lines 202-208, 212-222), on the
\* wrapper state w = [requests, stdout, pendingRequests].
\* (processLineMut: the variant of the first version of the wrapper, whose
\* loop awaits each line: a line read while a request is pending waits)
processLineMut(w, line) ==
    IF line = Blank THEN w
    ELSE [w EXCEPT !.requests = Append(@, Request(line,
                        IF w.pendingRequests > 0 THEN "queued"
                        ELSE IF line # Garbage /\ handle(line) = "forward" THEN "fetch"
                        ELSE "handled",
                        IF line = Garbage THEN "throw" ELSE handle(line),
                        IF line # Garbage /\ handle(line) = "forward"
                           /\ w.pendingRequests = 0 THEN 1 ELSE 0)),
                   !.pendingRequests = @ + 1]
\* (processLineNoFinallyMut: the variant whose catch block answers a line
\* that does not parse and returns without the finally block's count-down)
processLineNoFinallyMut(w, line) ==
    LET i == Len(w.requests) + 1 IN
    IF line = Blank THEN w
    ELSE IF line = Garbage
    THEN [w EXCEPT !.requests = Append(@, [Request(line, "done", "throw", 0)
                                              EXCEPT !.err = "parse"]),
                   !.stdout = Append(@, Response(i, "InternalError", -1)),
                   !.pendingRequests = @ + 1]
    ELSE IF handle(line) = "forward"
    THEN [w EXCEPT !.requests = Append(@, [Request(line, "fetch", "none", 1)
                                              EXCEPT !.timer = TRUE]),
                   !.pendingRequests = @ + 1]
    ELSE [w EXCEPT !.requests = Append(@, Request(line, "handled", handle(line), 0)),
                   !.pendingRequests = @ + 1]
\* (processLineBlankMut: the variant without the test of line 203, which
\* counts a blank line and fails to parse it)
processLineBlankMut(w, line) ==
    LET i == Len(w.requests) + 1 IN
    IF line = Blank THEN [w EXCEPT !.pendingRequests = @ + 1]
    ELSE IF line = Garbage
    THEN [w EXCEPT !.requests = Append(@, [Request(line, "done", "throw", 0)
                                              EXCEPT !.err = "parse"]),
                   !.stdout = Append(@, Response(i, "InternalError", -1))]
    ELSE IF handle(line) = "forward"
    THEN [w EXCEPT !.requests = Append(@, [Request(line, "fetch", "none", 1)
                                              EXCEPT !.timer = TRUE]),
                   !.pendingRequests = @ + 1]
    ELSE [w EXCEPT !.requests = Append(@, Request(line, "handled", handle(line), 0)),
                   !.pendingRequests = @ + 1]
processLine(w, line) ==
    LET i == Len(w.requests) + 1 IN
    IF line = Blank THEN w
    ELSE IF line = Garbage
    THEN [w EXCEPT !.requests = Append(@, [Request(line, "done", "throw", 0)
                                              EXCEPT !.err = "parse"]),
                   !.stdout = Append(@, Response(i, "InternalError", -1))]
    ELSE IF handle(line) = "forward"
    THEN [w EXCEPT !.requests = Append(@, [Request(line, "fetch", "none", 1)
                                              EXCEPT !.timer = TRUE]),
                   !.pendingRequests = @ + 1]
    ELSE [w EXCEPT !.requests = Append(@, Request(line, "handled", handle(line), 0)),
                   !.pendingRequests = @ + 1]

\* The loop of the 'data' handler (lines 238-240) over the complete lines.
RECURSIVE ProcessLines(_, _)
ProcessLines(w, lines) ==
    IF lines = <<>> THEN w
    ELSE ProcessLines(processLine(w, Head(lines)), Tail(lines))

\* A promise reaction of the wrapper is queued.
WrapperMicrotaskPending ==
    \E i \in 1..Len(requests) : requests[i].st = "handled"

NonBlank(lines) == Cardinality({k \in 1..Len(lines) : lines[k] # Blank})

\* process.stdin 'data' (lines 232-241): the chunk is `lines` complete lines
\* (the first one completes what is in buffer) followed by `rest`, the text
\* after its last newline.
StdinData(lines, rest) ==
    /\ ~exited /\ ~stdinEnded
    /\ ~WrapperMicrotaskPending
    /\ Len(requests) + NonBlank(lines) <= MaxLines
    /\ LET all == IF lines = <<>> THEN lines
                  ELSE <<Concat(buffer, Head(lines))>> \o Tail(lines)
           w == ProcessLines([requests |-> requests, stdout |-> stdout,
                              pendingRequests |-> pendingRequests], all)
       IN  /\ Len(w.requests) <= MaxLines
           /\ requests' = w.requests
           /\ stdout' = w.stdout
           /\ pendingRequests' = w.pendingRequests
           /\ buffer' = IF lines = <<>> THEN Concat(buffer, rest) ELSE rest
    /\ (lines = <<>> => rest # Blank)
    /\ UNCHANGED <<stdinEnded, exited, stdioVars, httpVars, calls, norm>>

\* checkExit() (lines 192-197) with `pending` requests left.
\* (checkExitMut: the variant that exits as soon as stdin has ended)
checkExitMut(ended, pending) == ended
checkExit(ended, pending) == ended /\ pending = 0

\* process.stdin 'end' (lines 243-247).
StdinEnd ==
    /\ ~exited /\ ~stdinEnded
    /\ ~WrapperMicrotaskPending
    /\ stdinEnded' = TRUE
    /\ exited' = checkExit(TRUE, pendingRequests)
    /\ UNCHANGED <<buffer, pendingRequests, requests, stdout, stdioVars, httpVars, calls, norm>>

\* The continuation of `await handle(request)` in processLine (lines 209-222)
\* for the request whose reaction is first in the queue: the response is
\* written unless it is null, a rejection is answered from the catch block,
\* and the finally block counts the request off and checks for exit.
Respond(i) ==
    /\ ~exited
    /\ requests[i].st = "handled"
    /\ \A j \in 1..(i - 1) : requests[j].st # "handled"
    /\ requests' = [requests EXCEPT ![i].st = "done"]
    /\ stdout' =
          IF requests[i].ret = "null" THEN stdout
          ELSE IF requests[i].ret = "throw"
          THEN Append(stdout, Response(i, "InternalError", -1))
          ELSE IF requests[i].ret = "other"
          THEN Append(stdout, Response(i, "other", 0))
          ELSE Append(stdout, Response(i, requests[i].ret, IdOf(i, requests[i].line)))
    /\ pendingRequests' = pendingRequests - 1
    /\ exited' = checkExit(stdinEnded, pendingRequests - 1)
    /\ UNCHANGED <<buffer, stdinEnded, stdioVars, httpVars, calls, norm>>

\* forward(request) (lines 81-123).  fetch resolves with a response whose
\* status is 2xx or not.
FetchResponse(i, ok) ==
    /\ ~exited /\ ~WrapperMicrotaskPending
    /\ requests[i].st = "fetch"
    /\ requests' = [requests EXCEPT ![i].st = "text", ![i].ok = ok]
    /\ UNCHANGED <<buffer, pendingRequests, stdinEnded, stdout, exited,
                   stdioVars, httpVars, calls, norm>>

\* fetch or response.text() rejects because the network fails: the catch
\* block clears the timer and rethrows (lines 116-121).
\* (ForwardFailsMut: the variant with one AbortController shared by all
\* forwards, whose abort rejects every outstanding request)
ForwardFailsMut(i) ==
    /\ ~exited /\ ~WrapperMicrotaskPending
    /\ requests[i].st \in {"fetch", "text"}
    /\ requests' = [j \in 1..Len(requests) |->
          IF requests[j].st \in {"fetch", "text"}
          THEN [requests[j] EXCEPT !.st = "handled", !.ret = "throw",
                                   !.err = "failed", !.timer = FALSE]
          ELSE requests[j]]
    /\ UNCHANGED <<buffer, pendingRequests, stdinEnded, stdout, exited,
                   stdioVars, httpVars, calls, norm>>
ForwardFails(i) ==
    /\ ~exited /\ ~WrapperMicrotaskPending
    /\ requests[i].st \in {"fetch", "text"}
    /\ requests' = [requests EXCEPT ![i].st = "handled", ![i].ret = "throw",
                                    ![i].err = "failed", ![i].timer = FALSE]
    /\ UNCHANGED <<buffer, pendingRequests, stdinEnded, stdout, exited,
                   stdioVars, httpVars, calls, norm>>

\* The timer of line 85 fires after 180 s: controller.abort() rejects the
\* pending fetch or text() with an AbortError, which the catch block turns
\* into 'Request timed out after 180 seconds' (lines 116-120).
ForwardTimeout(i) ==
    /\ ~exited /\ ~WrapperMicrotaskPending
    /\ requests[i].st \in {"fetch", "text"}
    /\ requests[i].timer
    /\ requests' = [requests EXCEPT ![i].st = "handled", ![i].ret = "throw",
                                    ![i].err = "timeout", ![i].timer = FALSE]
    /\ UNCHANGED <<buffer, pendingRequests, stdinEnded, stdout, exited,
                   stdioVars, httpVars, calls, norm>>

\* The bodies a server can send: a JSON-RPC response object, the JSON
\* literal null, JSON of another form (a number, an array, an object that is
\* no JSON-RPC message), or text that is not JSON.
Bodies == {"object", "null", "other", "invalid"}

\* response.text() resolves (lines 99-115): forward throws on text that does
\* not parse and on a non-2xx status, and returns the parsed body otherwise.
forward(ok, body) ==
    IF body = "invalid" THEN "throw"
    ELSE IF ~ok THEN "throw"
    ELSE IF body = "null" THEN "null"
    ELSE IF body = "other" THEN "other"
    ELSE "remote"
forwardError(ok, body) ==
    IF body = "invalid" \/ ~ok THEN "failed" ELSE "none"
\* (TextDoneMut: the variant that does not call clearTimeout on line 100)
TextDoneMut(i, body) ==
    /\ ~exited /\ ~WrapperMicrotaskPending
    /\ requests[i].st = "text"
    /\ requests' = [requests EXCEPT ![i].st = "handled",
                                    ![i].ret = forward(requests[i].ok, body),
                                    ![i].err = forwardError(requests[i].ok, body),
                                    ![i].ok = FALSE]
    /\ UNCHANGED <<buffer, pendingRequests, stdinEnded, stdout, exited,
                   stdioVars, httpVars, calls, norm>>
TextDone(i, body) ==
    /\ ~exited /\ ~WrapperMicrotaskPending
    /\ requests[i].st = "text"
    /\ requests' = [requests EXCEPT ![i].st = "handled",
                                    ![i].ret = forward(requests[i].ok, body),
                                    ![i].err = forwardError(requests[i].ok, body),
                                    ![i].timer = FALSE,
                                    ![i].ok = FALSE]
    /\ UNCHANGED <<buffer, pendingRequests, stdinEnded, stdout, exited,
                   stdioVars, httpVars, calls, norm>>

\* ============================================ polydev-stdio-wrapper.js (v1)
\* The first version of the wrapper (the second half of the file).  Its
\* 'data' handler is an async function whose loop awaits handle for each
\* line, so a line of a chunk waits ("queued") for the lines before it in the
\* same chunk; the handler invocations of different chunks run side by side.
\* forward has no timer.
\*
\* handle(request), lines 368-403.
handleV1(msg) ==
    IF msg.method \in {"initialize", "tools/list"} THEN "result"
    ELSE IF msg.method # "none" THEN "forward"
    ELSE "MethodNotFound"

\* The loop of one handler invocation (lines 432-450) from line i of
\* w.requests up to its next await: a line that does not parse is answered
\* in the catch block and the loop goes on, unless checkExit ends the
\* process; any other line suspends the loop at `await handle(request)`.
RECURSIVE runLoopV1(_, _, _)
runLoopV1(w, i, ended) ==
    IF i > Len(w.requests) THEN w
    ELSE IF w.requests[i].st # "queued" THEN w
    ELSE IF w.requests[i].line = Garbage
    THEN LET x == [w EXCEPT !.requests[i].st = "done",
                            !.requests[i].ret = "throw",
                            !.requests[i].err = "parse",
                            !.stdout = Append(@, Response(i, "InternalError", -1)),
                            !.exited = checkExit(ended, w.pendingRequests)]
         IN  IF x.exited THEN x ELSE runLoopV1(x, i + 1, ended)
    ELSE IF handleV1(w.requests[i].line) = "forward"
    THEN [w EXCEPT !.requests[i].st = "fetch", !.requests[i].posts = 1,
                   !.pendingRequests = @ + 1]
    ELSE [w EXCEPT !.requests[i].st = "handled",
                   !.requests[i].ret = handleV1(w.requests[i].line),
                   !.pendingRequests = @ + 1]

\* process.stdin 'data' (lines 427-451) up to the first await of its loop.
StdinDataV1(lines, rest) ==
    /\ ~exited /\ ~stdinEnded
    /\ ~WrapperMicrotaskPending
    /\ Len(requests) + NonBlank(lines) <= MaxLines
    /\ LET all == IF lines = <<>> THEN lines
                  ELSE <<Concat(buffer, Head(lines))>> \o Tail(lines)
           read == SelectSeq(all, LAMBDA l : l # Blank)
           w == runLoopV1(
                   [requests |-> requests \o
                        [k \in 1..Len(read) |-> Request(read[k], "queued", "none", 0)],
                    stdout |-> stdout, pendingRequests |-> pendingRequests,
                    exited |-> FALSE],
                   Len(requests) + 1, FALSE)
       IN  /\ Len(w.requests) <= MaxLines
           /\ requests' = w.requests
           /\ stdout' = w.stdout
           /\ pendingRequests' = w.pendingRequests
           /\ buffer' = IF lines = <<>> THEN Concat(buffer, rest) ELSE rest
    /\ (lines = <<>> => rest # Blank)
    /\ UNCHANGED <<stdinEnded, exited, stdioVars, httpVars, calls, norm>>

\* The continuation of `await handle(request)` in the loop (lines 438-449):
\* the response is written whatever it is (lines 438-439), a rejection is
\* answered from the catch block, the finally block counts the request off
\* and checks for exit, and the loop goes on with the next line of its chunk.
RespondV1(i) ==
    /\ ~exited
    /\ requests[i].st = "handled"
    /\ \A j \in 1..(i - 1) : requests[j].st # "handled"
    /\ LET out == IF requests[i].ret = "throw"
                  THEN Response(i, "InternalError", -1)
                  ELSE IF requests[i].ret \in {"null", "other"}
                  THEN Response(i, requests[i].ret, 0)
                  ELSE Response(i, requests[i].ret, IdOf(i, requests[i].line))
           x == [requests |-> [requests EXCEPT ![i].st = "done"],
                 stdout |-> Append(stdout, out),
                 pendingRequests |-> pendingRequests - 1,
                 exited |-> checkExit(stdinEnded, pendingRequests - 1)]
           w == IF x.exited THEN x ELSE runLoopV1(x, i + 1, stdinEnded)
       IN  /\ requests' = w.requests
           /\ stdout' = w.stdout
           /\ pendingRequests' = w.pendingRequests
           /\ exited' = w.exited
    /\ UNCHANGED <<buffer, stdinEnded, stdioVars, httpVars, calls, norm>>

\* ==================================================== result normalization
\* callMCPTool (client.ts 159-171) and HTTPMCPClient.callTool (http-client
\* 206-219) turn the raw result of tools/call into the value they return.
\*
\* A text is a sequence of characters of a small alphabet: the digit 1, the
\* letter a, the word null (n), the double quote (q), brackets, braces, the
\* comma and the space.
Alphabet == {"1", "a", "n", "q", "[", "]", "{", "}", ",", " "}
RECURSIVE TextsOfLen(_)
TextsOfLen(k) ==
    IF k = 0 THEN {<<>>}
    ELSE {Append(t, ch) : t \in TextsOfLen(k - 1), ch \in Alphabet}
Texts == UNION {TextsOfLen(k) : k \in 0..MaxTextLen}

\* JavaScript values: [t, v] with v the characters of a string or the digits
\* of a number, the elements of an array, the members of an object.
JVal(t, v) == [t |-> t, v |-> v]
Undefined == JVal("undefined", <<>>)

\* JSON.parse(text): a recursive-descent reading of the JSON grammar over the
\* alphabet.  The result is [ok, val, rest]; ok = FALSE is a SyntaxError.
ParseFail == [ok |-> FALSE, val |-> Undefined, rest |-> <<>>]
ParseOk(v, r) == [ok |-> TRUE, val |-> v, rest |-> r]
RECURSIVE SkipWs(_)
SkipWs(t) == IF t # <<>> /\ Head(t) = " " THEN SkipWs(Tail(t)) ELSE t
RECURSIVE ParseNumber(_, _)
ParseNumber(t, acc) ==
    IF t # <<>> /\ Head(t) = "1" THEN ParseNumber(Tail(t), Append(acc, "1"))
    ELSE ParseOk(JVal("number", acc), t)
RECURSIVE ParseString(_, _)
ParseString(t, acc) ==
    IF t = <<>> THEN ParseFail
    ELSE IF Head(t) = "q" THEN ParseOk(JVal("string", acc), Tail(t))
    ELSE ParseString(Tail(t), Append(acc, Head(t)))
RECURSIVE ParseValue(_)
RECURSIVE ParseItems(_, _)
ParseItems(t, acc) ==
    LET r == ParseValue(t)
        w == SkipWs(r.rest)
    IN  IF ~r.ok \/ w = <<>> THEN ParseFail
        ELSE IF Head(w) = "]" THEN ParseOk(JVal("array", Append(acc, r.val)), Tail(w))
        ELSE IF Head(w) = "," THEN ParseItems(Tail(w), Append(acc, r.val))
        ELSE ParseFail
ParseValue(t) ==
    LET u == SkipWs(t)
        v == IF u = <<>> THEN u ELSE SkipWs(Tail(u))
    IN  IF u = <<>> THEN ParseFail
        ELSE IF Head(u) = "1" THEN ParseNumber(u, <<>>)
        ELSE IF Head(u) = "n" THEN ParseOk(JVal("null", <<>>), Tail(u))
        ELSE IF Head(u) = "q" THEN ParseString(Tail(u), <<>>)
        ELSE IF Head(u) = "["
        THEN IF v # <<>> /\ Head(v) = "]"
             THEN ParseOk(JVal("array", <<>>), Tail(v))
             ELSE ParseItems(Tail(u), <<>>)
        ELSE IF Head(u) = "{"
        THEN IF v # <<>> /\ Head(v) = "}"
             THEN ParseOk(JVal("object", <<>>), Tail(v))
             ELSE ParseFail
        ELSE ParseFail
JSONparse(text) ==
    LET r == ParseValue(text)
    IN  IF r.ok /\ SkipWs(r.rest) = <<>> THEN r ELSE ParseFail

\* A content entry, and the raw results: not an object at all, an object
\* without content, with a content that is not a list, with a content list.
Entry(type, text) == [type |-> type, text |-> text]
EntryTypes == {"text", "image"}
SampleEntries == {Entry(ty, tx) : ty \in EntryTypes, tx \in {<<"1">>, <<"[">>}}
ContentLists ==
    {<<>>}
    \cup {<<Entry(ty, tx)>> : ty \in EntryTypes, tx \in Texts}
    \cup {<<e, f>> : e, f \in SampleEntries}
Result(shape, content) == [shape |-> shape, content |-> content]
RawResults ==
    {Result("null", <<>>), Result("object", <<>>), Result("scalarContent", <<>>)}
    \cup {Result("list", c) : c \in ContentLists}

\* What the helpers return as a JavaScript value: the content list, the
\* content that is not a list, the result object itself.
EntryValue(e) == JVal("object", <<e.type>> \o e.text)
\* (ContentValueMut: the variant that returns the first entry's text alone)
ContentValueMut(result) ==
    IF result.shape = "list" /\ Len(result.content) > 0
    THEN JVal("string", result.content[1].text)
    ELSE JVal("string", <<"a">>)
ContentValue(result) ==
    IF result.shape = "list"
    THEN JVal("array", [k \in 1..Len(result.content) |-> EntryValue(result.content[k])])
    ELSE JVal("string", <<"a">>)
ResultValue(result) ==
    IF result.shape = "null" THEN JVal("null", <<>>)
    ELSE IF result.shape = "object" THEN JVal("object", <<>>)
    ELSE JVal("object", <<"content">>)
TypeError == JVal("TypeError", <<>>)

\* `try { return JSON.parse(text) } catch { return text }`.
\* (ParseOrTextMut: the variant without the try block's parse)
ParseOrTextMut(text) == JVal("string", text)
ParseOrText(text) ==
    IF JSONparse(text).ok THEN JSONparse(text).val ELSE JVal("string", text)

\* callMCPTool, lines 159-171.
callMCPToolReturn(result) ==
    IF result.shape = "null" THEN TypeError
    ELSE IF result.shape = "list"
    THEN IF Len(result.content) = 1 /\ result.content[1].type = "text"
         THEN ParseOrText(result.content[1].text)
         ELSE ContentValue(result)
    ELSE ResultValue(result)

\* HTTPMCPClient.callTool, lines 206-219.
callToolReturn(result) ==
    IF result.shape \in {"list", "scalarContent"}
    THEN IF result.shape = "list" /\ Len(result.content) = 1
            /\ result.content[1].type = "text"
         THEN ParseOrText(result.content[1].text)
         ELSE ContentValue(result)
    ELSE ResultValue(result)

NoNorm == [result |-> Result("object", <<>>), by |-> "none", value |-> Undefined]
Normalize(by) ==
    /\ norm.by = "none"
    /\ norm' = [norm EXCEPT !.by = by,
                            !.value = IF by = "callMCPTool"
                                      THEN callMCPToolReturn(norm.result)
                                      ELSE callToolReturn(norm.result)]
    /\ UNCHANGED <<stdioVars, httpVars, calls, wrapperVars>>

\* ------------------------------------------------------------ specification
Init ==
    /\ clients = [n \in ServerNames |-> 0]
    /\ transports = [n \in ServerNames |-> 0]
    /\ initializing = [n \in ServerNames |-> 0]
    /\ sessions = <<>>
    /\ hclients = [n \in ServerNames |-> 0]
    /\ hsessions = <<>>
    /\ calls = [c \in Callers |-> IdleCall]
    /\ buffer = Blank
    /\ pendingRequests = 0
    /\ stdinEnded = FALSE
    /\ requests = <<>>
    /\ stdout = <<>>
    /\ exited = FALSE
    /\ norm = NoNorm

NextStdio ==
    \/ \E c \in Callers, n \in StdioCallNames : initializeServer(c, n)
    \/ \E c \in Callers, n \in StdioCallNames : callMCPTool(c, n)
    \/ \E c \in Callers, n \in StdioCallNames : listTools(c, n)
    \/ \E a \in SessionIds : ConnectDone(a)
    \/ \E a \in SessionIds : ConnectFail(a)
    \/ \E c \in Callers : CreatorResume(c)
    \/ \E c \in Callers : WaiterResume(c)
    \/ \E c \in Callers : Continue(c)
    \/ \E c \in Callers : ToolResponse(c)
    \/ \E a \in SessionIds : ProcessExit(a)
    \/ \E c \in Callers, n \in StdioCallNames : disconnect(c, n)
    \/ \E c \in Callers : DisconnectFinish(c)
    \/ \E c \in Callers : disconnectAll(c)
    \/ \E c \in Callers : DisconnectAllFinish(c)
    \/ \E c \in Callers : Return(c)

NextHttp ==
    \/ \E c \in Callers, n \in HttpCallNames : initializeHTTPServer(c, n)
    \/ \E c \in Callers, n \in HttpCallNames : callHTTPMCPTool(c, n)
    \/ \E c \in Callers, n \in HttpCallNames : listHTTPTools(c, n)
    \/ \E c \in Callers, r \in HttpResponses : InitializeResponse(c, r)
    \/ \E c \in Callers : HttpContinue(c)
    \/ \E c \in Callers, r \in HttpResponses : CallResponse(c, r)
    \/ \E c \in Callers : DeadlinePasses(c)
    \/ \E c \in Callers, n \in HttpCallNames : httpDisconnect(c, n)
    \/ \E c \in Callers : httpDisconnectAll(c)
    \/ \E c \in Callers : Return(c)

\* The lines a chunk can hold in this state: none once stdin has ended, and
\* only blank ones once MaxLines requests have been read.
ReadableLines ==
    IF exited \/ stdinEnded \/ WrapperMicrotaskPending THEN {}
    ELSE IF Len(requests) < MaxLines THEN LineTexts
    ELSE {Blank}

NextWrapper ==
    \/ \E k \in 0..MaxChunkLines :
          \E lines \in [1..k -> ReadableLines], rest \in LineTexts : StdinData(lines, rest)
    \/ StdinEnd
    \/ \E i \in 1..Len(requests) : Respond(i)
    \/ \E i \in 1..Len(requests), ok \in BOOLEAN : FetchResponse(i, ok)
    \/ \E i \in 1..Len(requests) : ForwardFails(i)
    \/ \E i \in 1..Len(requests) : ForwardTimeout(i)
    \/ \E i \in 1..Len(requests), body \in Bodies : TextDone(i, body)

\* The wrapper process on its own.
SpecWrapper == Init /\ [][NextWrapper]_vars

\* The first version of the wrapper on its own, fed with a method it answers
\* itself and two it forwards.
LineTextsV1 ==
    {Msg("tools/list", TRUE), Msg("tools/call", TRUE), Msg("ping", TRUE),
     Garbage, Blank}
ReadableLinesV1 ==
    IF exited \/ stdinEnded \/ WrapperMicrotaskPending THEN {}
    ELSE IF Len(requests) < MaxLines THEN LineTextsV1
    ELSE {Blank}
NextWrapperV1 ==
    \/ \E k \in 0..MaxChunkLines :
          \E lines \in [1..k -> ReadableLinesV1], rest \in LineTextsV1 :
             StdinDataV1(lines, rest)
    \/ StdinEnd
    \/ \E i \in 1..Len(requests) : RespondV1(i)
    \/ \E i \in 1..Len(requests), ok \in BOOLEAN : FetchResponse(i, ok)
    \/ \E i \in 1..Len(requests) : ForwardFails(i)
    \/ \E i \in 1..Len(requests), body \in Bodies : TextDone(i, body)
SpecWrapperV1 == Init /\ [][NextWrapperV1]_vars

\* The two helpers applied to every raw result.
InitNormalize ==
    /\ clients = [n \in ServerNames |-> 0]
    /\ transports = [n \in ServerNames |-> 0]
    /\ initializing = [n \in ServerNames |-> 0]
    /\ sessions = <<>>
    /\ hclients = [n \in ServerNames |-> 0]
    /\ hsessions = <<>>
    /\ calls = [c \in Callers |-> IdleCall]
    /\ buffer = Blank
    /\ pendingRequests = 0
    /\ stdinEnded = FALSE
    /\ requests = <<>>
    /\ stdout = <<>>
    /\ exited = FALSE
    /\ norm \in {[NoNorm EXCEPT !.result = r] : r \in RawResults}
NextNormalize ==
    \/ Normalize("callMCPTool")
    \/ Normalize("callTool")
SpecNormalize == InitNormalize /\ [][NextNormalize]_vars

\* The two programs that talk to a remote server over HTTP: the HTTP client
\* manager of the library and the wrapper.  They are separate processes that
\* share nothing; a run is a run of one of them.
ClientUntouched ==
    /\ sessions = <<>> /\ hsessions = <<>>
    /\ calls = [c \in Callers |-> IdleCall]
WrapperUntouched ==
    /\ requests = <<>> /\ stdout = <<>> /\ buffer = Blank
    /\ pendingRequests = 0 /\ ~stdinEnded /\ ~exited
NextRemote ==
    \/ WrapperUntouched /\ NextHttp
    \/ ClientUntouched /\ NextWrapper
SpecRemote == Init /\ [][NextRemote]_vars

\* The stdio manager alone, the HTTP manager alone, and both behind index.ts.
SpecStdio == Init /\ [][NextStdio]_vars
SpecHttp == Init /\ [][NextHttp]_vars
Next ==
    \/ NextStdio
    \/ NextHttp
    \/ \E c \in Callers, n \in StdioCallNames \cup HttpCallNames : callTool(c, n)
    \/ \E c \in Callers : cleanup(c)
Spec == Init /\ [][Next]_vars

\* The two managers, the HTTP manager called with both of its names (for
\* initialize, callTool and disconnect).
NextFrame ==
    \/ NextStdio
    \/ \E c \in Callers, n \in HttpAllNames : initializeHTTPServer(c, n)
    \/ \E c \in Callers, n \in HttpAllNames : callHTTPMCPTool(c, n)
    \/ \E c \in Callers, r \in HttpResponses : InitializeResponse(c, r)
    \/ \E c \in Callers : HttpContinue(c)
    \/ \E c \in Callers, r \in HttpResponses : CallResponse(c, r)
    \/ \E c \in Callers, n \in HttpAllNames : httpDisconnect(c, n)
SpecFrame == Init /\ [][NextFrame]_vars

\* =================================================================== claims
GetClientPcs == {"create", "join", "hasClient"}
InFlight(a) == sessions[a].st = "connecting"
\* A session that was connected and on which close was not invoked.
Live(a) == sessions[a].st = "connected" /\ ~sessions[a].closeInvoked

\* ------------------------------------------------------------------------ C1
\* C1: callers of getClient that arrive while a creation for the same stdio
\* server is in flight start no createClient of their own: there is never more
\* than one creation in flight per server, every arriving caller is attached
\* to the one in flight, and all callers attached to one creation end with the
\* same outcome (the same session, or the same failure).
C1_InFlightUnique ==
    \A a, b \in SessionIds :
        InFlight(a) /\ InFlight(b) /\ sessions[a].srv = sessions[b].srv => a = b
C1_JoinInFlight ==
    \A c \in Callers : \A a \in SessionIds :
        ( /\ calls[c].pc = "idle"
          /\ calls'[c].pc \in GetClientPcs
          /\ InFlight(a)
          /\ sessions[a].srv = calls'[c].srv )
        => /\ sessions' = sessions
           /\ calls'[c].pc = "join"
           /\ calls'[c].sid = a
C1_SameOutcome ==
    \A c, d \in Callers :
        ( /\ calls[c].pc = "done" /\ calls[c].kind = "init"
          /\ calls[d].pc = "done" /\ calls[d].kind = "init"
          /\ calls[c].res.sid = calls[d].res.sid )
        => calls[c].res = calls[d].res
C1_Attached ==
    \A c \in Callers :
        /\ (calls[c].pc = "hasClient" /\ calls[c].kind = "init")
              => sessions[calls[c].sid].st = "connected"
        /\ (calls[c].pc = "done" /\ calls[c].kind = "init")
              => calls[c].res = Outcome(calls[c].res.sid)
\* C1: exactly one createClient per batch of concurrent getClient callers, and
\* one shared outcome: the four parts above, in every state and every step.
C1_SingleCreation ==
    /\ []C1_InFlightUnique
    /\ [][C1_JoinInFlight]_vars
    /\ []C1_SameOutcome
    /\ []C1_Attached
\* Two callers wait on one in-flight creation: one started it, one joined it.
C1_Witness ==
    \E c, d \in Callers :
        /\ calls[c].pc = "create" /\ calls[d].pc = "join"
        /\ calls[c].sid = calls[d].sid
        /\ InFlight(calls[c].sid)

\* ------------------------------------------------------------------------ C2
\* C2: in every reachable state each serverId has at most one live session
\* (connected, close not invoked on it).
C2_AtMostOneLive ==
    \A a, b \in SessionIds :
        Live(a) /\ Live(b) /\ sessions[a].srv = sessions[b].srv => a = b

\* ------------------------------------------------------------------------ C3
\* C3: a call for a serverId that is in neither registry fails with a
\* configuration error and does no I/O: no process is ever spawned and no
\* HTTPMCPClient is ever constructed (so no POST is sent) for such a name; no
\* cache ever holds it, and the in-flight table holds it only while a
\* getClient call for it is still in progress.
Unregistered(kind, n) ==
    \/ kind \in {"init", "call"} /\ n \notin StdioNames
    \/ kind \in {"hinit", "hcall", "hlist"} /\ n \notin HttpNames
C4_FreshAfterExit ==
    \A c, d \in Callers :
        ( /\ calls[c].pc = "done" /\ calls[c].res.tag = "TransportError"
          /\ calls[d].pc = "hasClient" )
        => calls[d].sid # calls[c].res.sid

\* ------------------------------------------------------------------------ C5
\* C5: when disconnect(serverId) on a cached session completes, close has been
\* invoked on that session, the cache has no entry for serverId, and from then
\* on the session is in no cache entry and no getClient is attached to it or
\* handed it.
DisconnectedBy(c) ==
    IF calls[c].pc = "done" /\ calls[c].kind = "disconnect" THEN calls[c].res.sid ELSE 0
C5_Closed ==
    \A c \in Callers : DisconnectedBy(c) # 0 =>
        /\ sessions[DisconnectedBy(c)].closeInvoked
        /\ \A n \in ServerNames : clients[n] # DisconnectedBy(c)
        /\ \A d \in Callers :
              calls[d].pc \in GetClientPcs => calls[d].sid # DisconnectedBy(c)
C5_CompletesUncached ==
    \A c \in Callers :
        (calls[c].pc = "closing" /\ calls'[c].pc = "done")
            => clients'[calls[c].srv] = 0 /\ transports'[calls[c].srv] = 0
\* C5: a completed disconnect has closed its session, leaves the cache without
\* an entry for the server, and the session is never handed out again.
C5_Disconnect == []C5_Closed /\ [][C5_CompletesUncached]_vars
\* A disconnect has completed and a getClient for the same server holds a
\* newer session.
C5_Witness ==
    \E c, d \in Callers :
        /\ DisconnectedBy(c) # 0
        /\ calls[d].pc = "hasClient" /\ calls[d].srv = calls[c].srv
        /\ calls[d].sid > DisconnectedBy(c)

\* ------------------------------------------------------------------------ C6
\* C6: disconnect(serverId) for a serverId that has no cache entry (unknown, or
\* already disconnected) returns without error and changes nothing in the
\* manager, and a completed disconnect leaves no entry, so that a second
\* disconnect in sequence is such a no-op; in both managers.
C6_NoOp ==
    \A c \in Callers :
        /\ ( /\ calls[c].pc = "idle" /\ calls'[c].kind = "disconnect"
             /\ ~HasClient(calls'[c].srv) )
           => /\ calls'[c].pc = "done" /\ calls'[c].res = Res("void", 0)
              /\ UNCHANGED <<clients, transports, initializing, sessions>>
        /\ ( /\ calls[c].pc = "idle" /\ calls'[c].kind = "hdisconnect"
             /\ ~HHasClient(calls'[c].srv) )
           => /\ calls'[c].pc = "done" /\ calls'[c].res = Res("void", 0)
              /\ UNCHANGED <<hclients, hsessions>>
        /\ (calls'[c].pc = "done" /\ calls'[c].kind = "disconnect" /\ calls[c].pc # "done")
           => clients'[calls'[c].srv] = 0
        /\ (calls'[c].pc = "done" /\ calls'[c].kind = "hdisconnect" /\ calls[c].pc # "done")
           => hclients'[calls'[c].srv] = 0
\* C6: every step is as C6_NoOp says: disconnect without a cache entry is a
\* no-op without error, and a completed disconnect leaves no entry.
C6_Idempotent == [][C6_NoOp]_vars
\* A disconnect of a server that an earlier disconnect had already removed,
\* and an HTTP disconnect of a name that has no entry while another has one.
C6_WitnessStdio ==
    \E c, d \in Callers :
        /\ DisconnectedBy(c) # 0
        /\ calls[d].pc = "done" /\ calls[d].kind = "disconnect"
        /\ calls[d].srv = calls[c].srv /\ calls[d].res.sid = 0
C6_Witness ==
    \/ C6_WitnessStdio
    \/ \E c \in Callers, n \in HttpNames :
        /\ calls[c].pc = "done" /\ calls[c].kind = "hdisconnect"
        /\ calls[c].srv # n /\ HHasClient(n)

\* ------------------------------------------------------------------------ C7
\* C7: when disconnectAll() completes, the cache is empty and every session it
\* removed from the cache has had close invoked on it.
C7_Step ==
    \A c \in Callers :
        (calls[c].pc = "closingAll" /\ calls'[c].pc = "done")
            => /\ \A n \in ServerNames : clients'[n] = 0
               /\ \A n \in ServerNames :
                     HasClient(n) => sessions[clients[n]].closeInvoked
\* C7: every completion of disconnectAll empties the cache and removes only
\* sessions on which close was invoked.
C7_DisconnectAllCloses == [][C7_Step]_vars

\* ------------------------------------------------------------------------ C8
\* C8: whenever no getClient, disconnect or disconnectAll call is in progress,
\* a session is live if and only if it is the cache's entry for its serverId.
ManagerCallInProgress ==
    \E c \in Callers : calls[c].pc \in GetClientPcs \cup {"closing", "closingAll"}
\* C8: with no manager call in progress, live sessions = cache entries.
C8_LiveIffCached ==
    ~ManagerCallInProgress =>
        \A a \in SessionIds :
            sessions[a].st # "gone" => (Live(a) <=> clients[sessions[a].srv] = a)

\* ------------------------------------------------------------------------ C9
\* C9: on one HTTP session at most one initialize POST is ever outstanding or
\* successful: none is sent while another is outstanding, and none after the
\* session is initialized, also with concurrent callers.
InitializeOutstanding(h) ==
    {c \in Callers : calls[c].pc = "hInitWait" /\ calls[c].hid = h}
\* C9: at most one initialize POST outstanding or successful per HTTP session.
C9_SingleInitialize ==
    \A h \in HttpIds :
        Cardinality(InitializeOutstanding(h))
            + (IF hsessions[h].initialized THEN 1 ELSE 0) <= 1

\* ----------------------------------------------------------------------- C10
\* C10: no tools/call or tools/list request is sent on a session before the
\* initialize request has succeeded and the client has sent the
\* notifications/initialized acknowledgement.
C10_HandshakeFirst ==
    \A h \in HttpIds :
        hsessions[h].sent \cap {"tools/call", "tools/list"} # {}
            => /\ hsessions[h].initialized
               /\ "notifications/initialized" \in hsessions[h].sent

\* ----------------------------------------------------------------------- C11
\* C11: an HTTP disconnect(serverId) leaves the cache without an entry for
\* serverId, and a call for a registered serverId that has no entry starts on
\* a newly constructed client by sending the initialize POST with request id
\* 1; on every client the first POST is initialize, so that every tools/call
\* or tools/list POST carries an id above 1.
HttpKinds == {"hinit", "hcall", "hlist"}
C11_Step ==
    \A c \in Callers :
        /\ (calls[c].pc = "idle" /\ calls'[c].kind = "hdisconnect")
           => hclients'[calls'[c].srv] = 0
        /\ ( /\ calls[c].pc = "idle" /\ calls'[c].kind \in HttpKinds
             /\ calls'[c].srv \in HttpNames /\ ~HHasClient(calls'[c].srv) )
           => /\ calls'[c].pc = "hInitWait" /\ calls'[c].rid = 1
              /\ calls'[c].hid \notin HttpIds
              /\ hclients'[calls'[c].srv] = calls'[c].hid
              /\ hsessions'[calls'[c].hid].requestId = 1
              /\ hsessions'[calls'[c].hid].sent = {"initialize"}
              /\ ~hsessions'[calls'[c].hid].initialized
C11_InitializeFirst ==
    /\ \A h \in HttpIds :
          hsessions[h].srv # "none" =>
              "initialize" \in hsessions[h].sent /\ hsessions[h].requestId >= 1
    /\ \A c \in Callers : calls[c].pc = "hCallWait" => calls[c].rid > 1
\* C11: disconnect drops the entry; the next call re-runs initialize, with
\* request id 1, on a new client, before any tools/call POST.
C11_Reinitialize == [][C11_Step]_vars /\ []C11_InitializeFirst
\* A first client was initialized, the server was disconnected, and the next
\* call has sent initialize with id 1 on a second client.
C11_Witness ==
    \E c, d \in Callers :
        /\ calls[d].pc = "done" /\ calls[d].kind = "hinit" /\ calls[d].hid = 1
        /\ hsessions[1].initialized
        /\ calls[c].pc = "hInitWait" /\ calls[c].kind = "hcall"
        /\ calls[c].hid = 2 /\ calls[c].rid = 1
        /\ hclients[calls[c].srv] = 2 /\ calls[c].srv = calls[d].srv

\* ----------------------------------------------------------------------- C12
\* C12: a tools/call or tools/list POST that is answered with a non-2xx status
\* or with a JSON-RPC error ends its call with the matching error and never
\* with a value, and changes nothing in the manager or the client (the client
\* stays cached, its initialized flag stays set); a call that starts on a
\* cached, initialized client sends no initialize POST.
C12_Step ==
    /\ \A c \in Callers : \A resp \in HttpResponses :
          (CallResponse(c, resp) /\ ~resp.rejected /\ (~resp.ok \/ resp.error))
          => /\ calls'[c].pc = "done"
             /\ calls'[c].res.tag = IF ~resp.ok THEN "HTTPError" ELSE "MCPError"
             /\ UNCHANGED <<hclients, hsessions>>
             /\ hsessions[calls[c].hid].initialized
    /\ \A c \in Callers :
          ( /\ calls[c].pc = "idle" /\ calls'[c].kind \in HttpKinds
            /\ HHasClient(calls'[c].srv)
            /\ hsessions[hclients[calls'[c].srv]].initialized )
          => /\ calls'[c].pc = "hInitDone"
             /\ calls'[c].hid = hclients[calls'[c].srv]
             /\ UNCHANGED <<hclients, hsessions>>
\* C12: an HTTP or protocol error fails the call, evicts nothing, and the next
\* call sends no initialize POST.
C12_ErrorKeepsSession == [][C12_Step]_vars
\* A tool call has failed with a protocol error on a client that got a single
\* initialize POST, and the next call on that client has started without one.
C12_Witness ==
    \E c, d \in Callers :
        /\ calls[c].pc = "done" /\ calls[c].kind = "hcall"
        /\ calls[c].res.tag \in {"HTTPError", "MCPError"}
        /\ calls[d].pc = "hInitDone" /\ calls[d].kind = "hcall"
        /\ calls[d].hid = calls[c].hid /\ hclients[calls[d].srv] = calls[d].hid
        /\ hsessions[calls[d].hid].initialized
        /\ hsessions[calls[d].hid].initPosts = 1
        /\ "tools/call" \in hsessions[calls[d].hid].sent

\* ----------------------------------------------------------------------- C13
\* C13: every remote call is bounded by a timeout: no POST is still
\* outstanding once its deadline has passed (the call has failed with a
\* timeout error and the request was aborted).
C13_Bounded ==
    \A c \in Callers :
        calls[c].pc \in {"hInitWait", "hCallWait"} => ~calls[c].late

\* ----------------------------------------------------------------------- C15
\* C15: on one HTTPMCPClient every request sent (initialize, tools/list,
\* tools/call) takes the id one above the last id taken, the first being 1; the
\* counter never decreases while the client exists, and no two outstanding
\* requests on one client have the same id, also with concurrent callers.
HttpWaitPcs == {"hInitWait", "hCallWait"}
C15_Distinct ==
    \A c, d \in Callers :
        ( /\ c # d /\ calls[c].pc \in HttpWaitPcs /\ calls[d].pc \in HttpWaitPcs
          /\ calls[c].hid = calls[d].hid )
        => calls[c].rid # calls[d].rid
C15_InRange ==
    \A c \in Callers :
        calls[c].pc \in HttpWaitPcs
            => calls[c].rid >= 1 /\ calls[c].rid <= hsessions[calls[c].hid].requestId
C15_Step ==
    /\ \A h \in HttpIds :
          hsessions'[h].srv # "none" => hsessions'[h].requestId >= hsessions[h].requestId
    /\ \A c \in Callers :
          (calls'[c].pc \in HttpWaitPcs /\ calls'[c].pc # calls[c].pc)
          => /\ calls'[c].rid = hsessions'[calls'[c].hid].requestId
             /\ calls'[c].rid =
                  IF calls'[c].hid \in HttpIds
                  THEN hsessions[calls'[c].hid].requestId + 1
                  ELSE 1
\* C15: ids start at 1, go up by one with every request, and are never shared
\* by two outstanding requests.
C15_RequestIds == []C15_Distinct /\ []C15_InRange /\ [][C15_Step]_vars
\* Two callers have a tools/call and a tools/list outstanding on one client,
\* with the ids 2 and 3 that follow the initialize request.
C15_Witness ==
    \E c, d \in Callers :
        /\ calls[c].pc = "hCallWait" /\ calls[d].pc = "hCallWait"
        /\ calls[c].kind = "hcall" /\ calls[d].kind = "hlist"
        /\ calls[c].hid = calls[d].hid
        /\ hsessions[calls[c].hid].initPosts = 1
        /\ calls[c].rid = 2 /\ calls[d].rid = 3

\* ------------------------------------------------------- wrapper: vocabulary
RequestIds == 1..Len(requests)
\* The lines that processLine call i has written to stdout.
Written(i) == {k \in 1..Len(stdout) : stdout[k].req = i}
WrittenNext(i) == {k \in 1..Len(stdout') : stdout'[k].req = i}
Outstanding(i) == requests[i].st \in {"fetch", "text"}

\* ----------------------------------------------------------------------- C17
\* C17: whenever the wrapper writes the response of a tools/call, every ping
\* request it had read by then (in the chunk of the tools/call or in a later
\* one, while the call was outstanding) has its response on stdout already.
C17_Step ==
    \A i \in RequestIds :
        ( /\ requests[i].line.method = "tools/call"
          /\ Written(i) = {} /\ WrittenNext(i) # {} )
        => \A j \in RequestIds :
              requests[j].line = Msg("ping", TRUE) => Written(j) # {}
\* C17: a ping is answered before the response of any tools/call that was
\* outstanding when the ping was read.
C17_PingNotBlocked == [][C17_Step]_vars
\* A tools/call was read first, two pings after it have been answered, and the
\* response of the call comes last on stdout.
C17_Witness ==
    /\ Len(requests) = 3 /\ Len(stdout) = 3
    /\ requests[1].line.method = "tools/call"
    /\ requests[2].line = Msg("ping", TRUE) /\ requests[3].line = Msg("ping", TRUE)
    /\ stdout[1].req = 2 /\ stdout[2].req = 3
    /\ stdout[3].req = 1 /\ stdout[3].kind = "remote"

\* ----------------------------------------------------------------------- C18
\* C18: the wrapper writes no line to stdout for a message that carries no
\* id, whatever its method.
C18_NoResponseWithoutId ==
    \A k \in 1..Len(stdout) :
        requests[stdout[k].req].line.kind = "msg"
            => requests[stdout[k].req].line.hasId

\* ----------------------------------------------------------------------- C19
\* C19: fetch is called once for every tools/call request and never for any
\* other line; initialize, tools/list and ping are never outstanding on the
\* network, and what is written for them is their result.
LocalMethods == {"initialize", "tools/list", "ping"}
C19_OnlyToolsCallForwarded ==
    \A i \in RequestIds :
        /\ requests[i].posts = IF requests[i].line.method = "tools/call" THEN 1 ELSE 0
        /\ requests[i].line.method \in LocalMethods
           => /\ ~Outstanding(i)
              /\ \A k \in Written(i) : stdout[k].kind = "result" /\ stdout[k].id = i
\* initialize and tools/list have been answered and a tools/call is on the
\* network.
C19_Witness ==
    \E i, j, k \in RequestIds :
        /\ requests[i].line.method = "initialize" /\ Written(i) # {}
        /\ requests[j].line.method = "tools/list" /\ Written(j) # {}
        /\ requests[k].line.method = "tools/call" /\ Outstanding(k)
        /\ requests[k].posts = 1

\* ----------------------------------------------------------------------- C14
\* C14: a call that fails while others are pending on the same session ends
\* alone: in the step in which it fails no other call changes and the session
\* keeps its state; a pending call ends only by its own response, with the
\* outcome of its own request; the wrapper exits only when no request is
\* pending.
HttpErrors == {"HTTPError", "MCPError", "NetworkError"}
C14_HttpStep ==
    \A c \in Callers :
        /\ ( /\ calls[c].pc \in HttpWaitPcs /\ calls'[c].pc = "done"
             /\ calls'[c].res.tag \in HttpErrors )
           => /\ \A d \in Callers \ {c} : calls'[d] = calls[d]
              /\ UNCHANGED <<hclients, hsessions>>
        /\ (calls[c].pc \in HttpWaitPcs /\ calls'[c].pc = "done")
           => \E resp \in HttpResponses :
                 InitializeResponse(c, resp) \/ CallResponse(c, resp)
Fails(i) ==
    \/ requests[i].ret # "throw" /\ requests'[i].ret = "throw"
    \/ requests[i].ret = "throw" /\ requests[i].st # "done" /\ requests'[i].st = "done"
C14_WrapperStep ==
    \A i \in RequestIds :
        Fails(i) =>
            /\ \A j \in RequestIds \ {i} : requests'[j] = requests[j]
            /\ \A k \in (Len(stdout) + 1)..Len(stdout') : stdout'[k].req = i
            /\ buffer' = buffer /\ stdinEnded' = stdinEnded
C14_Wrapper ==
    /\ pendingRequests = Cardinality({i \in RequestIds : requests[i].st # "done"})
    /\ exited => pendingRequests = 0
    /\ \A k \in 1..Len(stdout) :
          LET r == requests[stdout[k].req] IN
          IF r.ret = "throw"
          THEN stdout[k].kind = "InternalError"
          ELSE r.line.kind = "msg" /\ stdout[k].kind = r.ret
                 /\ stdout[k].id = IF r.ret = "other" THEN 0
                                   ELSE IdOf(stdout[k].req, r.line)
\* C14: a failing call leaves its siblings and the session alone, in the HTTP
\* client and in the wrapper.
C14_SiblingsIsolated ==
    /\ [][C14_HttpStep]_vars
    /\ [][C14_WrapperStep]_vars
    /\ []C14_Wrapper
\* HTTP client: a tools/list (request 2) is still waiting while the tools/call
\* sent after it (request 3) has failed.
C14_WitnessHttp ==
    \E c, d \in Callers :
        /\ calls[c].pc = "done" /\ calls[c].kind = "hcall"
        /\ calls[c].res.tag \in {"HTTPError", "MCPError"}
        /\ calls[d].pc = "hCallWait" /\ calls[d].kind = "hlist" /\ calls[d].rid = 2
        /\ calls[d].hid = calls[c].hid
        /\ hsessions[calls[d].hid].initPosts = 1
        /\ hsessions[calls[d].hid].requestId = 3
        /\ "tools/call" \in hsessions[calls[d].hid].sent
\* Wrapper: of two tools/call requests the second failed first, and the first
\* was answered after that with the server's response and its own id.
C14_WitnessWrapper ==
    /\ Len(requests) >= 2 /\ Len(stdout) = 2
    /\ requests[1].line.method = "tools/call"
    /\ requests[2].line.method = "tools/call"
    /\ stdout[1] = Response(2, "InternalError", -1)
    /\ stdout[2] = Response(1, "remote", 1)
C14_Witness == C14_WitnessHttp \/ C14_WitnessWrapper

\* ----------------------------------------------------------------------- C20
\* C20: for a raw result whose content list has exactly one entry, of type
\* text, callMCPTool and HTTPMCPClient.callTool return the value JSON.parse
\* gives for the text when the text is valid JSON, and the text itself as a
\* string when it is not.
SingleText(result) ==
    /\ result.shape = "list" /\ Len(result.content) = 1
    /\ result.content[1].type = "text"
C20_Examples ==
    /\ JSONparse(<<"[", "1", "]">>).val = JVal("array", <<JVal("number", <<"1">>)>>)
    /\ JSONparse(<<" ", "n", " ">>).val = JVal("null", <<>>)
    /\ JSONparse(<<"q", ",", "q">>).val = JVal("string", <<",">>)
    /\ JSONparse(<<"{", "}">>).val = JVal("object", <<>>)
    /\ \A t \in {<<>>, <<"a">>, <<"[", "1">>, <<"1", " ", "1">>, <<"[", ",", "]">>,
                <<"q", "a">>, <<"]">>, <<"n", "n">>, <<"{", "1", "}">>} :
          ~JSONparse(t).ok
\* C20: single text entry: the parsed value of valid JSON, else the raw text.
C20_SingleText ==
    /\ C20_Examples
    /\ (norm.by # "none" /\ SingleText(norm.result)) =>
          LET text == norm.result.content[1].text
          IN  IF JSONparse(text).ok
              THEN norm.value = JSONparse(text).val /\ norm.value.t # "undefined"
              ELSE norm.value = JVal("string", text)
\* HTTPMCPClient.callTool has returned the array [1] for the text "[1]".
C20_Witness ==
    /\ norm.by = "callTool"
    /\ norm.result = Result("list", <<Entry("text", <<"[", "1", "]">>)>>)
    /\ norm.value = JVal("array", <<JVal("number", <<"1">>)>>)

\* ----------------------------------------------------------------------- C21
\* C21: for a raw result whose content list has more than one entry, or one
\* entry that is not of type text, both helpers return the content list
\* itself: an array with the same entries in the same order.
ListCase(result) ==
    /\ result.shape = "list"
    /\ \/ Len(result.content) > 1
       \/ Len(result.content) = 1 /\ result.content[1].type # "text"
C21_ContentUnmodified ==
    (norm.by # "none" /\ ListCase(norm.result)) =>
        /\ norm.value.t = "array"
        /\ Len(norm.value.v) = Len(norm.result.content)
        /\ \A k \in 1..Len(norm.result.content) :
              norm.value.v[k] =
                  JVal("object", <<norm.result.content[k].type>>
                                     \o norm.result.content[k].text)
\* callMCPTool has returned a list of a text entry and an image entry as it
\* was, though the text is valid JSON.
C21_Witness ==
    /\ norm.by = "callMCPTool"
    /\ norm.result.shape = "list" /\ Len(norm.result.content) = 2
    /\ norm.result.content[1] = Entry("text", <<"1">>)
    /\ norm.result.content[2] = Entry("image", <<"[">>)
    /\ norm.value.t = "array" /\ Len(norm.value.v) = 2

\* ----------------------------------------------------------------------- C22
\* C22: a raw result with no content member, with a content that is not a
\* list, or with an empty content list is returned as the raw result itself.
FallbackCase(result) ==
    \/ result.shape \in {"object", "scalarContent"}
    \/ result.shape = "list" /\ Len(result.content) = 0
C22_RawResult ==
    (norm.by # "none" /\ FallbackCase(norm.result)) =>
        norm.value = ResultValue(norm.result)

\* ----------------------------------------------------------------------- C23
\* C23: for every raw result that is an object, whatever its content member,
\* the value returned is the value callMCPTool returns and the value
\* HTTPMCPClient.callTool returns: the two paths agree.
C23_SameOnBothPaths ==
    (norm.by # "none" /\ norm.result.shape # "null") =>
        /\ norm.value = callMCPToolReturn(norm.result)
        /\ norm.value = callToolReturn(norm.result)

\* ----------------------------------------------------------------------- C24
\* C24: when cleanup() completes, no session of either transport kind is
\* connected: the stdio manager's map is empty and the HTTP manager's
\* getConnectedServers() is empty.
C24_Step ==
    \A c \in Callers :
        (calls[c].kind = "cleanup" /\ calls[c].pc = "closingAll"
            /\ calls'[c].pc = "done") =>
            /\ \A n \in ServerNames : clients'[n] = 0
            /\ getConnectedServers(hclients', hsessions') = {}
C24_CleanupEmptiesBoth == [][C24_Step]_vars

C26_Step ==
    Len(requests') > Len(requests) =>
        /\ pendingRequests' = pendingRequests + Cardinality(
               {i \in (Len(requests) + 1)..Len(requests') :
                   requests'[i].line.kind = "msg"})
        /\ ~exited'
        /\ \A i \in RequestIds : requests'[i] = requests[i]
C26_Answered ==
    \A i \in RequestIds :
        /\ requests[i].line = Garbage =>
              /\ requests[i].st = "done"
              /\ Cardinality(Written(i)) = 1
              /\ \A k \in Written(i) : stdout[k] = Response(i, "InternalError", -1)
        /\ requests[i].line.kind = "msg" =>
              /\ requests[i].st # "done" => Written(i) = {}
              /\ (requests[i].st = "done" /\ requests[i].ret # "null")
                    => Cardinality(Written(i)) = 1
              /\ (handle(requests[i].line) \notin {"forward", "null"}
                    /\ ~WrapperMicrotaskPending)
                    => \E k \in Written(i) : stdout[k].kind = handle(requests[i].line)
C26_MalformedLineIsolated == [][C26_Step]_vars /\ []C26_Answered
\* A tools/call, a line that does not parse and a ping were read in this
\* order: the error for the line was written first, then the ping's result,
\* and the server's response to the call last; nothing is outstanding.
C26_Witness ==
    /\ Len(requests) = 3 /\ pendingRequests = 0
    /\ requests[1].line.method = "tools/call"
    /\ requests[2].line = Garbage
    /\ requests[3].line = Msg("ping", TRUE)
    /\ stdout = <<Response(2, "InternalError", -1), Response(3, "result", 3),
                  Response(1, "remote", 1)>>

\* ----------------------------------------------------------------------- C27
\* C27: the timer of forward is armed exactly while forward is waiting for
\* the server, so a call that is never answered is ended by it and no timer
\* outlives its forward; a forward ended by the timer throws, and what is
\* written for its request is an error response.
C27_Armed ==
    \A i \in RequestIds :
        /\ requests[i].timer <=> Outstanding(i)
        /\ requests[i].err = "timeout" =>
              /\ requests[i].ret = "throw"
              /\ requests[i].st = "done" =>
                    \E k \in Written(i) : stdout[k].kind = "InternalError"
C27_Step ==
    \A i \in RequestIds :
        (Outstanding(i) /\ requests'[i].err = "timeout") =>
            /\ requests'[i].st = "handled" /\ ~requests'[i].timer
            /\ \A j \in RequestIds \ {i} : requests'[j] = requests[j]
C27_TimeoutEndsForward == []C27_Armed /\ [][C27_Step]_vars
\* One tools/call was ended by its timer and answered with an error, another
\* was answered by the server; no timer is armed.
C27_Witness ==
    \E i, j \in RequestIds :
        /\ requests[i].err = "timeout" /\ requests[i].st = "done"
        /\ \E k \in Written(i) : stdout[k].kind = "InternalError"
        /\ requests[j].st = "done" /\ requests[j].ret = "remote"
        /\ \A m \in RequestIds : ~requests[m].timer

\* ----------------------------------------------------------------------- C29
\* C29: every line on stdout is a JSON-RPC envelope: a result or an error
\* built by the wrapper, or the server's JSON-RPC response.
EnvelopeKinds ==
    {"result", "MethodNotFound", "InvalidRequest", "InternalError", "remote"}
C29_OnlyEnvelopes ==
    \A k \in 1..Len(stdout) : stdout[k].kind \in EnvelopeKinds

\* ----------------------------------------------------------------------- C30
\* C30: every response the wrapper builds for a request that carries an id
\* carries that id, and so does the server's response it passes on.
C30_SameId ==
    \A k \in 1..Len(stdout) :
        LET r == requests[stdout[k].req] IN
        (r.line.kind = "msg" /\ r.line.hasId /\ stdout[k].kind \in EnvelopeKinds)
            => stdout[k].id = stdout[k].req

\* ----------------------------------------------------------------------- C28
\* C28: in the first version of the wrapper the handling of a request has not
\* begun as long as a request read before it, in the same chunk or in an
\* earlier one, is without its response.
C28_Sequential ==
    \A i, j \in RequestIds :
        (i < j /\ requests[j].st # "queued") => requests[i].st = "done"

\* ----------------------------------------------------------------------- C31
\* C31: when the wrapper has exited, every request with an id that stdin
\* delivered has exactly one response on stdout, and no request with an id
\* is left in the buffer (a last line without its newline).
C31_AllAnswered ==
    exited =>
        /\ buffer.kind = "msg" => ~buffer.hasId
        /\ \A i \in RequestIds :
              (requests[i].line.kind = "msg" /\ requests[i].line.hasId)
                  => Cardinality(Written(i)) = 1

\* ----------------------------------------------------------------------- C32
\* C32: a getClient call that starts is never given a session on which
\* disconnect or disconnectAll has already invoked close.
C32_Step ==
    \A c \in Callers :
        (calls[c].pc = "idle" /\ calls'[c].pc \in GetClientPcs)
            => ~sessions'[calls'[c].sid].closeInvoked
C32_NoClosingSession == [][C32_Step]_vars

\* ----------------------------------------------------------------------- C33
\* C33: a creation that failed is in neither map; its in-flight entry stays
\* only until its creator's catch block has run; and a getClient that finds
\* neither a cache entry nor an in-flight entry starts a creation of its own,
\* on a new session.
FailedCreation(a) == sessions[a].st \in {"failed", "rejected"}
C33_NotCached ==
    \A a \in SessionIds :
        FailedCreation(a) =>
            /\ \A n \in ServerNames : clients[n] # a /\ transports[n] # a
            /\ \A n \in ServerNames :
                  initializing[n] = a =>
                      \E c \in Callers : calls[c].pc = "create" /\ calls[c].sid = a
C33_Step ==
    \A c \in Callers :
        /\ (calls[c].pc = "create" /\ calls'[c].pc = "done")
              => /\ initializing'[calls[c].srv] = 0
                 /\ clients' = clients /\ transports' = transports
        /\ ( /\ calls[c].pc = "idle" /\ calls'[c].pc \in GetClientPcs
             /\ clients[calls'[c].srv] = 0 /\ initializing[calls'[c].srv] = 0 )
              => /\ calls'[c].pc = "create"
                 /\ calls'[c].sid = Len(sessions) + 1
                 /\ Len(sessions') = Len(sessions) + 1
                 /\ initializing'[calls'[c].srv] = calls'[c].sid
C33_FailureNotCached == []C33_NotCached /\ [][C33_Step]_vars
\* A caller holds the error of a failed connect, and a later getClient for the
\* same server is creating a newer session.
C33_Witness ==
    \E c, d \in Callers :
        /\ calls[c].pc = "done" /\ calls[c].res.tag = "ConnectError"
        /\ calls[d].pc = "create" /\ calls[d].srv = calls[c].srv
        /\ calls[d].sid > calls[c].res.sid
        /\ sessions[calls[d].sid].st = "connecting"
        /\ clients[calls[c].srv] = 0

\* ----------------------------------------------------------------------- C34
\* C34: a failed initialize POST changes nothing in its client (the flag and
\* serverInfo stay as they were, no further POST goes out) and ends the call
\* that sent it with the error; a client that is not initialized has no
\* serverInfo; and every initialize / callTool / listTools that finds its
\* client not initialized sends the initialize POST.
C34_Unset ==
    \A h \in HttpIds :
        ~hsessions[h].initialized => hsessions[h].serverInfo \in {"null", "gone"}
C34_Step ==
    \A c \in Callers :
        /\ (calls[c].pc = "hInitWait" /\ calls'[c].pc = "done")
              => /\ calls'[c].res.tag \in HttpErrors
                 /\ hsessions' = hsessions /\ hclients' = hclients
        /\ ( /\ calls[c].pc = "idle" /\ calls'[c].hid \in HttpIds
             /\ ~hsessions[calls'[c].hid].initialized )
              => /\ calls'[c].pc = "hInitWait"
                 /\ hsessions'[calls'[c].hid].initPosts
                       = hsessions[calls'[c].hid].initPosts + 1
                 /\ hsessions'[calls'[c].hid].sent
                       = hsessions[calls'[c].hid].sent \cup {"initialize"}
Touched ==
    {n \in ServerNames :
        \/ clients'[n] # clients[n] \/ transports'[n] # transports[n]
        \/ initializing'[n] # initializing[n] \/ hclients'[n] # hclients[n]}
    \cup {sessions[a].srv : a \in {b \in SessionIds : sessions'[b] # sessions[b]}}
    \cup {hsessions[h].srv : h \in {g \in HttpIds : hsessions'[g] # hsessions[g]}}
Acting == {c \in Callers : calls'[c] # calls[c]}
AboutAll ==
    \E c \in Acting :
        \/ calls[c].pc \in {"done", "closingAll"}
        \/ calls'[c].pc = "closingAll"
        \/ calls'[c].kind = "hdisconnectAll"
C35_Step ==
    ~AboutAll =>
        /\ Cardinality(Touched) <= 1
        /\ \A c \in Acting : Touched \subseteq {calls'[c].srv}
C35_OthersUntouched == [][C35_Step]_vars
\* Stdio: disconnect('memory') has completed on a cached session, and the
\* session of 'git' is cached and live.  HTTP: a call on 'exa' has failed and
\* its client is cached, next to the initialized client of 'vercel'.
C35_WitnessStdio ==
    \E c \in Callers :
        /\ calls[c].pc = "done" /\ calls[c].kind = "disconnect"
        /\ calls[c].srv = "memory" /\ calls[c].res.sid # 0
        /\ clients["memory"] = 0
        /\ clients["git"] # 0 /\ Live(clients["git"])
        /\ transports["git"] = clients["git"]
C35_WitnessHttp ==
    \E c \in Callers :
        /\ calls[c].pc = "done" /\ calls[c].srv = "exa"
        /\ calls[c].res.tag \in HttpErrors
        /\ hclients["exa"] # 0 /\ hclients["vercel"] # 0
        /\ hclients["exa"] # hclients["vercel"]
        /\ hsessions[hclients["vercel"]].initialized
        /\ ~hsessions[hclients["exa"]].initialized
C35_Witness == C35_WitnessStdio \/ C35_WitnessHttp

\* ----------------------------------------------------------------------- C36
\* C36: in every state the clients map and the transports map of the stdio
\* manager have the same keys, and hold the client and the transport of the
\* same session under each.
C36_SameKeys ==
    \A n \in ServerNames :
        /\ (clients[n] # 0) <=> (transports[n] # 0)
        /\ transports[n] = clients[n]
\* 'memory' is in both maps, and 'git' is in neither after its disconnect has
\* completed.
C36_Witness ==
    /\ clients["memory"] # 0 /\ transports["memory"] = clients["memory"]
    /\ clients["git"] = 0 /\ transports["git"] = 0
    /\ \E c \in Callers :
          /\ calls[c].pc = "done" /\ calls[c].kind = "disconnect"
          /\ calls[c].srv = "git" /\ calls[c].res.sid # 0

\* ----------------------------------------------------------------------- C37
\* C37: pendingRequests is never negative and is the number of non-blank
\* lines whose processLine call has not finished; a step that reads blank
\* lines only (no request added, nothing written) leaves it as it was.
C37_Count ==
    /\ pendingRequests >= 0
    /\ pendingRequests = Cardinality({i \in RequestIds : requests[i].st # "done"})
C37_BlankStep ==
    (requests' = requests /\ stdout' = stdout) => pendingRequests' = pendingRequests
C37_PendingCounter == []C37_Count /\ [][C37_BlankStep]_vars
\* Of three requests read one has finished and two are outstanding on the
\* network; the counter is 2.
C37_Witness ==
    /\ Len(requests) = 3 /\ pendingRequests = 2
    /\ Cardinality({i \in RequestIds : Outstanding(i)}) = 2
    /\ \E i \in RequestIds : requests[i].st = "done" /\ Written(i) # {}

====
